---- MODULE Spec2Model ----
(***************************************************************************)
(* Token-bucket rate limiting middleware (middleware/rateLimiting.ts).     *)
(*                                                                         *)
(* Numbers.  The source keeps `tokens` and `refillRate` as IEEE doubles.   *)
(* Here they are exact rationals: refillRate is kept as the fraction       *)
(* num/den of tokens per millisecond (the source's tokens per second is    *)
(* MsPerSecond * num / den; its division of the elapsed milliseconds by    *)
(* 1000 cancels that factor), and a bucket's `tokens` field holds the      *)
(* token level multiplied by Scale(bucket) = refillRate.den, so that one   *)
(* millisecond of refill adds the integer refillRate.num.  The rounding of *)
(* the doubles is modelled apart: the operators whose names end in 64      *)
(* compute the bucket in binary64, bit for bit, and SpecDouble runs the    *)
(* middleware on them.                                                     *)
(*                                                                         *)
(* Time.  `now` is the value Date.now() returns, in milliseconds since the *)
(* module was loaded.  A handler reads the clock more than once; the clock *)
(* may advance between two reads (ClockSkews).                             *)
(***************************************************************************)
EXTENDS Integers, Sequences, FiniteSets, TLC

VARIABLES
    now,        \* Date.now()
    buckets,    \* RateLimitStore.buckets : key -> TokenBucket
    running,    \* the process is alive and the cleanup interval is armed
    cleanupDue, \* the time the cleanup interval fires next
    ticks,      \* number of clock advances so far (bounded)
    skews,      \* number of in-handler clock advances so far (bounded)
    hist,       \* history: per key, the times of the latest successful consumes
    deny,       \* history: per key, the latest 429 sent since the last successful consume
    burst,      \* history: per key, the successful consumes at the current clock value
    seen,       \* history: per key, the time of the latest request that reached its bucket
    probe,      \* a request descriptor and the key a key generator derived from it
    last,       \* history: what the latest operation did
    shadow      \* the store of the same requests in a run without cleanup (SpecDouble)

vars == <<now, buckets, running, cleanupDue, ticks, skews, hist, deny, burst, seen, probe, last, shadow>>

----
\* Bounds of the model
MaxTicks == 2
MaxTimedTicks == 4
MaxHistTicks == 3
MaxSkews == 1
MaxHist == 4
MaxSweepTicks == 3
MaxChainTicks == 1
MaxRegressTicks == 3
MaxDoubleTicks == 3

\* Program constants
MsPerSecond == 1000
CleanupIntervalMs == 300000
CleanupIdleMs == 600000
TooManyRequests == 429

\* The clock advances the model takes between operations, and inside a handler
TickSteps == {499, 1000, CleanupIntervalMs}
TimedSteps == {600, 999, 1000}
HistSteps == {499, 1000}
SweepSteps == {1000, CleanupIntervalMs}
ChainSteps == {600, 60000}
RegressSteps == {499, 1000}
BackSteps == {400}
DoubleSteps == {121, 11879, 299879}
ClockSkews == {0, 1}

----
\* JavaScript helpers

\* a || b on strings: the empty string stands for undefined / null / ""
Or(a, b) == IF a # "" THEN a ELSE b

Min(a, b) == IF a <= b THEN a ELSE b

\* Math.floor(n / d) and Math.ceil(n / d) for d > 0
Floor(n, d) == n \div d

Ceil(n, d) == -((-n) \div d)

\* Number.POSITIVE_INFINITY, the quotient of a positive number by 0: above
\* every number of the model
Infinity == 2147483647

----
\* IEEE-754 binary64, as JavaScript numbers compute: every operation returns
\* the double nearest to the exact result, ties to the even significand.
\* A double greater than 0 is [m, e] for the value m * 2^e, where the
\* significand m has exactly 53 bits; m is an unbounded natural number kept
\* as its digits in base 2^15, least significant first.  Negative numbers,
\* subnormals, infinities and NaN do not arise from the operands used here.

LimbBits == 15
LimbBase == 32768
SignificandBits == 53

RECURSIVE BigNorm(_)
BigNorm(a) ==
    IF a = <<>> THEN a
    ELSE IF a[Len(a)] = 0 THEN BigNorm(SubSeq(a, 1, Len(a) - 1))
    ELSE a

BigFromInt(n) ==
    BigNorm(<<n % LimbBase, (n \div LimbBase) % LimbBase, n \div (LimbBase * LimbBase)>>)

RECURSIVE BigToInt(_)
BigToInt(a) == IF a = <<>> THEN 0 ELSE a[1] + LimbBase * BigToInt(Tail(a))

Limb(a, i) == IF i <= Len(a) THEN a[i] ELSE 0

RECURSIVE BigAddFrom(_, _, _, _)
BigAddFrom(a, b, i, carry) ==
    IF i > Len(a) /\ i > Len(b)
    THEN IF carry = 0 THEN <<>> ELSE <<carry>>
    ELSE LET s == Limb(a, i) + Limb(b, i) + carry
         IN  <<s % LimbBase>> \o BigAddFrom(a, b, i + 1, s \div LimbBase)

BigAdd(a, b) == BigAddFrom(a, b, 1, 0)

\* a - b for a >= b
RECURSIVE BigSubFrom(_, _, _, _)
BigSubFrom(a, b, i, borrow) ==
    IF i > Len(a) THEN <<>>
    ELSE LET s == Limb(a, i) - Limb(b, i) - borrow
         IN  <<s % LimbBase>> \o BigSubFrom(a, b, i + 1, IF s < 0 THEN 1 ELSE 0)

BigSub(a, b) == BigNorm(BigSubFrom(a, b, 1, 0))

RECURSIVE BigLessFrom(_, _, _)
BigLessFrom(a, b, i) ==
    IF i = 0 THEN FALSE
    ELSE IF a[i] # b[i] THEN a[i] < b[i]
    ELSE BigLessFrom(a, b, i - 1)

BigLess(a, b) ==
    IF Len(a) # Len(b) THEN Len(a) < Len(b) ELSE BigLessFrom(a, b, Len(a))

\* a * k + carry for one digit k
RECURSIVE BigMulSmallFrom(_, _, _, _)
BigMulSmallFrom(a, k, i, carry) ==
    IF i > Len(a)
    THEN IF carry = 0 THEN <<>> ELSE <<carry>>
    ELSE LET p == a[i] * k + carry
         IN  <<p % LimbBase>> \o BigMulSmallFrom(a, k, i + 1, p \div LimbBase)

BigMulSmall(a, k, carry) == BigNorm(BigMulSmallFrom(a, k, 1, carry))

BigShiftLimbs(a, n) == IF a = <<>> THEN a ELSE [i \in 1..n |-> 0] \o a

RECURSIVE BigMulFrom(_, _, _)
BigMulFrom(a, b, i) ==
    IF i > Len(b) THEN <<>>
    ELSE BigAdd(BigShiftLimbs(BigMulSmall(a, b[i], 0), i - 1), BigMulFrom(a, b, i + 1))

BigMul(a, b) == BigMulFrom(a, b, 1)

\* floor(a / d) for one digit d > 0, from the most significant digit down
RECURSIVE BigDivSmallFrom(_, _, _, _)
BigDivSmallFrom(a, d, i, rem) ==
    IF i = 0 THEN <<>>
    ELSE LET n == rem * LimbBase + a[i]
         IN  BigDivSmallFrom(a, d, i - 1, n % d) \o <<n \div d>>

\* a * 2^n and floor(a / 2^n)
BigShl(a, n) == BigShiftLimbs(BigMulSmall(a, 2 ^ (n % LimbBits), 0), n \div LimbBits)

BigDropLimbs(a, n) == IF n >= Len(a) THEN <<>> ELSE SubSeq(a, n + 1, Len(a))

BigShrOf(a, n) == BigNorm(BigDivSmallFrom(a, 2 ^ (n % LimbBits), Len(a), 0))

BigShr(a, n) == BigShrOf(BigDropLimbs(a, n \div LimbBits), n)

\* bit i of a, bit 0 the least significant
BigBit(a, i) == (Limb(a, i \div LimbBits + 1) \div 2 ^ (i % LimbBits)) % 2

\* a is a multiple of 2^n
BigLowBitsZero(a, n) ==
    /\ \A i \in 1..(n \div LimbBits) : Limb(a, i) = 0
    /\ Limb(a, n \div LimbBits + 1) % 2 ^ (n % LimbBits) = 0

RECURSIVE BitLen(_)
BitLen(k) == IF k = 0 THEN 0 ELSE 1 + BitLen(k \div 2)

BigBitLen(a) == IF a = <<>> THEN 0 ELSE LimbBits * (Len(a) - 1) + BitLen(a[Len(a)])

\* The largest digit k with k * d <= r, for r < d * 2^15, found bit by bit
RECURSIVE BigDigit(_, _, _, _)
BigDigit(r, d, bit, k) ==
    IF bit < 0 THEN k
    ELSE IF BigLess(r, BigMulSmall(d, k + 2 ^ bit, 0))
    THEN BigDigit(r, d, bit - 1, k)
    ELSE BigDigit(r, d, bit - 1, k + 2 ^ bit)

\* Long division, one digit of n at a time from digit i down: quotient and
\* remainder.  At digit i the remainder r so far takes the digit n[i], the
\* quotient digit k is found, and k * d is taken from r.
RECURSIVE BigDivLimbs(_, _, _, _, _)
BigDivWith(n, d, i, q, r, k) ==
    IF k = 0 THEN BigDivLimbs(n, d, i - 1, <<0>> \o q, r)
    ELSE BigDivLimbs(n, d, i - 1, <<k>> \o q, BigSub(r, BigMulSmall(d, k, 0)))

BigDivNext(n, d, i, q, r) ==
    IF BigLess(r, d) THEN BigDivWith(n, d, i, q, r, 0)
    ELSE BigDivWith(n, d, i, q, r, BigDigit(r, d, LimbBits - 1, 0))

BigDivLimbs(n, d, i, q, r) ==
    IF i = 0 THEN [q |-> BigNorm(q), r |-> r]
    ELSE BigDivNext(n, d, i, q, BigNorm(<<n[i]>> \o r))

BigDivMod(n, d) == BigDivLimbs(n, d, Len(n), <<>>, <<>>)

Zero64 == [m |-> <<>>, e |-> 0]

IsZero64(x) == x.m = <<>>

\* The double nearest to (n + f) * 2^e, for a fraction 0 <= f < 1 of which
\* `sticky` tells whether it is greater than 0; a fraction that is not 0
\* comes with an n of more than 53 bits
RoundCarry(q, e) ==
    IF BigBitLen(q) > SignificandBits THEN [m |-> BigShr(q, 1), e |-> e + 1]
    ELSE [m |-> q, e |-> e]

RoundShifted(n, e, sticky, sh, q) ==
    LET up == /\ BigBit(n, sh - 1) = 1
              /\ \/ sticky
                 \/ ~BigLowBitsZero(n, sh - 1)
                 \/ q[1] % 2 = 1
    IN  RoundCarry(IF up THEN BigAdd(q, <<1>>) ELSE q, e + sh)

RoundNearestEven(n, e, sticky, len) ==
    IF len = 0 THEN Zero64
    ELSE IF len <= SignificandBits
    THEN [m |-> BigShl(n, SignificandBits - len), e |-> e - (SignificandBits - len)]
    ELSE RoundShifted(n, e, sticky, len - SignificandBits, BigShr(n, len - SignificandBits))

Round64(n, e, sticky) == RoundNearestEven(n, e, sticky, BigBitLen(n))

\* Number(n) for an integer 0 <= n < 2^31
Number64(n) == Round64(BigFromInt(n), 0, FALSE)

One64 == Number64(1)

\* x >= y
Geq64(x, y) ==
    IF IsZero64(y) THEN TRUE
    ELSE IF IsZero64(x) THEN FALSE
    ELSE IF x.e # y.e THEN x.e > y.e
    ELSE ~BigLess(x.m, y.m)

Min64(x, y) == IF Geq64(x, y) THEN y ELSE x

\* x + y
Add64(x, y) ==
    IF IsZero64(x) THEN y
    ELSE IF IsZero64(y) THEN x
    ELSE IF x.e >= y.e
    THEN Round64(BigAdd(BigShl(x.m, x.e - y.e), y.m), y.e, FALSE)
    ELSE Round64(BigAdd(BigShl(y.m, y.e - x.e), x.m), x.e, FALSE)

\* x - y for x >= y
Sub64(x, y) ==
    IF IsZero64(y) THEN x
    ELSE Round64(BigSub(BigShl(x.m, x.e - y.e), y.m), y.e, FALSE)

\* x * y
Mul64(x, y) ==
    IF IsZero64(x) \/ IsZero64(y) THEN Zero64
    ELSE Round64(BigMul(x.m, y.m), x.e + y.e, FALSE)

\* x / y for y > 0: the quotient of the significands is taken to 56 or 57
\* bits, its remainder is the sticky fraction
QuotientBits == 56

Div64Of(x, y, qr) == Round64(qr.q, x.e - y.e - QuotientBits, qr.r # <<>>)

Div64(x, y) ==
    IF IsZero64(x) THEN Zero64
    ELSE Div64Of(x, y, BigDivMod(BigShl(x.m, QuotientBits), y.m))

\* Math.floor(x) and Math.ceil(x), as integers
Floor64(x) ==
    IF IsZero64(x) THEN 0
    ELSE IF x.e >= 0 THEN BigToInt(BigShl(x.m, x.e))
    ELSE BigToInt(BigShr(x.m, -x.e))

Ceil64(x) ==
    IF IsZero64(x) THEN 0
    ELSE IF x.e >= 0 \/ BigLowBitsZero(x.m, -x.e) THEN Floor64(x)
    ELSE Floor64(x) + 1

----
\* Request descriptors: the fields of an express Request the key generators read
NoUser == [present |-> FALSE, uid |-> "", enterprises |-> <<>>]

ReqWithBody ==
    [ip |-> "10.0.0.1", remoteAddress |-> "10.0.0.1", params_enterprise_id |-> "",
     hasBody |-> TRUE, body_enterprise_id |-> "", user |-> NoUser]

\* The same request where no body parser ran: req.body is undefined
ReqNoBody == [ReqWithBody EXCEPT !.hasBody = FALSE]

Descs == {ReqWithBody, ReqNoBody}

\* req.user as the authentication layer leaves it: absent, or with an optional
\* uid and a list of enterprises
Users ==
    {NoUser} \cup
    [present : {TRUE}, uid : {"", "u1"}, enterprises : {<<>>, <<"corp">>, <<"corp", "dept">>}]

\* Request descriptors with every field present or absent; a request without
\* a parsed body has no body.enterprise_id
KeyDescs ==
    { d \in [ip : {"", "10.0.0.1"}, remoteAddress : {"", "10.0.0.2"},
             params_enterprise_id : {"", "acme"}, hasBody : BOOLEAN,
             body_enterprise_id : {"", "bolt"}, user : Users] :
        ~d.hasBody => d.body_enterprise_id = "" }

\* The key generators by the name a configuration selects them with
KeyGenerators == {"default", "enterprise", "user"}

\* The result of a call that may throw
Ok(v) == [ok |-> TRUE, value |-> v]

Throw == [ok |-> FALSE, value |-> ""]

\* Default key generator (IP address)
getDefaultKey(req) == Ok(Or(req.ip, Or(req.remoteAddress, "unknown")))

\* Enterprise-based key generator; reading req.body.enterprise_id throws when
\* req.body is undefined and the path parameter did not already decide
enterpriseKeyGenerator(req) ==
    LET userEnt == IF req.user.present /\ Len(req.user.enterprises) > 0
                   THEN req.user.enterprises[1] ELSE ""
        ip == Or(req.ip, Or(req.remoteAddress, "unknown"))
    IN  IF req.params_enterprise_id = "" /\ ~req.hasBody
        THEN Throw
        ELSE LET enterpriseId == Or(req.params_enterprise_id,
                                    Or(req.body_enterprise_id, userEnt))
             IN  Ok(IF enterpriseId # "" THEN "enterprise:" \o enterpriseId
                                         ELSE "ip:" \o ip)

\* Variant: the fallback is the bare address
userKeyGeneratorBare(req) ==
    LET userId == IF req.user.present THEN req.user.uid ELSE ""
        ip == Or(req.ip, Or(req.remoteAddress, "unknown"))
    IN  Ok(IF userId # "" THEN "user:" \o userId ELSE ip)

\* User-based key generator
userKeyGenerator(req) ==
    LET userId == IF req.user.present THEN req.user.uid ELSE ""
        ip == Or(req.ip, Or(req.remoteAddress, "unknown"))
    IN  Ok(IF userId # "" THEN "user:" \o userId ELSE "ip:" \o ip)

----
\* Rate limit configurations (RateLimitConfig) the middleware is created with.
\* The key generators and messages are those of the predefined limiters; the
\* capacities and windows are the small ones of the tests (2 per second, 5
\* per minute) in place of 100, 300 and 30 per minute.
General ==
    [name |-> "general", windowMs |-> 1000, max |-> 2, keyGenerator |-> "default",
     message |-> "Too many requests from this IP, please try again later"]

Health ==
    [name |-> "health", windowMs |-> 60000, max |-> 5, keyGenerator |-> "default",
     message |-> "Too many health check requests, please try again later"]

Query ==
    [name |-> "query", windowMs |-> 3000, max |-> 1, keyGenerator |-> "enterprise",
     message |-> ""]

\* A slow policy keyed like General
Slow ==
    [name |-> "slow", windowMs |-> 3000, max |-> 1, keyGenerator |-> "default",
     message |-> ""]

\* A configuration with a capacity of 0
Zero ==
    [name |-> "zero", windowMs |-> 1000, max |-> 0, keyGenerator |-> "default",
     message |-> ""]

\* The limiters server.ts mounts, with the configured values: 100 requests
\* per minute per IP on every route, 300 per minute per IP on /health
generalRateLimit ==
    [name |-> "generalRateLimit", windowMs |-> 60000, max |-> 100,
     keyGenerator |-> "default",
     message |-> "Too many requests from this IP, please try again later"]

healthRateLimit ==
    [name |-> "healthRateLimit", windowMs |-> 60000, max |-> 300,
     keyGenerator |-> "default",
     message |-> "Too many health check requests, please try again later"]

\* 5 uploads per minute per enterprise
uploadRateLimit ==
    [name |-> "uploadRateLimit", windowMs |-> 60000, max |-> 5,
     keyGenerator |-> "enterprise",
     message |-> "Too many uploads from this enterprise, please try again later"]

Policies ==
    {General, Health, Query, Slow, Zero, generalRateLimit, healthRateLimit,
     uploadRateLimit}

DefaultMessage == "Too many requests, please try again later"

\* config.keyGenerator ? config.keyGenerator(req) : getDefaultKey(req)
GenerateKey(config, req) ==
    CASE config.keyGenerator = "enterprise" -> enterpriseKeyGenerator(req)
      [] config.keyGenerator = "user" -> userKeyGenerator(req)
      [] OTHER -> getDefaultKey(req)

\* const refillRate = config.max / (config.windowMs / 1000) tokens per second,
\* that is config.max / config.windowMs tokens per millisecond
RefillRateOf(config) == [num |-> config.max, den |-> config.windowMs]

\* No request descriptor has been looked at
NoProbe == [req |-> ReqWithBody, keyGenerator |-> "", applied |-> FALSE, result |-> Throw]

\* createRateLimit(config): computes refillRate and returns the handler; no
\* field of the configuration is looked at before the first request
createRateLimit(config) == Ok(config)

\* Every key a modelled request can produce
AllKeys ==
    UNION { { GenerateKey(p, d).value : d \in { e \in Descs : GenerateKey(p, e).ok } } :
            p \in Policies }

----
\* TokenBucket

\* The factor the `tokens` field is multiplied by: one token is Scale(b)
Scale(b) == b.refillRate.den

\* Variant: a bucket that starts empty
NewTokenBucketEmpty(capacity, refillRate, t) ==
    [capacity |-> capacity, refillRate |-> refillRate, tokens |-> 0, lastRefill |-> t]

\* constructor(capacity, refillRate) at clock value t
NewTokenBucket(capacity, refillRate, t) ==
    [capacity |-> capacity, refillRate |-> refillRate,
     tokens |-> capacity * refillRate.den, lastRefill |-> t]

\* Variant: the refill forgets the level the bucket had
refillFromZero(b, t) ==
    [b EXCEPT !.tokens = Min(b.capacity * b.refillRate.den,
                             (t - b.lastRefill) * b.refillRate.num),
              !.lastRefill = t]

\* Variant: the refill is not clamped to the capacity
refillNoClamp(b, t) ==
    [b EXCEPT !.tokens = b.tokens + (t - b.lastRefill) * b.refillRate.num,
              !.lastRefill = t]

\* Variant: lastRefill is not advanced, so elapsed time is credited again
refillKeepStamp(b, t) ==
    [b EXCEPT !.tokens = Min(b.capacity * b.refillRate.den,
                             b.tokens + (t - b.lastRefill) * b.refillRate.num)]

\* private refill(): tokens = min(capacity, tokens + elapsed * refillRate),
\* elapsed = (now - lastRefill) / 1000 seconds
refill(b, t) ==
    LET elapsedMs == t - b.lastRefill
        tokensToAdd == elapsedMs * b.refillRate.num
    IN  [b EXCEPT !.tokens = Min(b.capacity * Scale(b), b.tokens + tokensToAdd),
                  !.lastRefill = t]

\* Variant: a refused consume empties the bucket
consumeDrainOnDeny(b, t, cost) ==
    LET r == refill(b, t)
    IN  IF r.tokens >= cost * Scale(r)
        THEN [bucket |-> [r EXCEPT !.tokens = r.tokens - cost * Scale(r)], result |-> TRUE]
        ELSE [bucket |-> [r EXCEPT !.tokens = 0], result |-> FALSE]

\* Variant: a successful consume does not subtract the cost
consumeNoDebit(b, t, cost) ==
    LET r == refill(b, t)
    IN  [bucket |-> r, result |-> r.tokens >= cost * Scale(r)]

\* consume(tokens = 1): the bucket afterwards and the value returned
consume(b, t, cost) ==
    LET r == refill(b, t)
    IN  IF r.tokens >= cost * Scale(r)
        THEN [bucket |-> [r EXCEPT !.tokens = r.tokens - cost * Scale(r)], result |-> TRUE]
        ELSE [bucket |-> r, result |-> FALSE]

\* Variant: the count is rounded up
getTokensCeil(b, t) ==
    LET r == refill(b, t)
    IN  [bucket |-> r, result |-> Ceil(r.tokens, Scale(r))]

\* getTokens(): Math.floor(this.tokens) after a refill
getTokens(b, t) ==
    LET r == refill(b, t)
    IN  [bucket |-> r, result |-> Floor(r.tokens, Scale(r))]

\* Variant: the hint is rounded down
getTimeUntilRefillFloor(b, t) ==
    LET r == refill(b, t)
    IN  [bucket |-> r,
         result |-> IF r.tokens >= Scale(r) THEN 0
                    ELSE IF r.refillRate.num = 0 THEN Infinity
                    ELSE Floor(Scale(r) - r.tokens, MsPerSecond * r.refillRate.num)]

\* Math.ceil(bucket.getTimeUntilRefill()): the retry hint in whole seconds.
\* (1 - tokens) / refillRate seconds = (Scale - tokens) / (MsPerSecond * num),
\* Infinity when refillRate is 0
getTimeUntilRefillCeil(b, t) ==
    LET r == refill(b, t)
    IN  [bucket |-> r,
         result |-> IF r.tokens >= Scale(r) THEN 0
                    ELSE IF r.refillRate.num = 0 THEN Infinity
                    ELSE Ceil(Scale(r) - r.tokens, MsPerSecond * r.refillRate.num)]

----
\* RateLimitStore

\* Variant: inserting a new bucket replaces the map
getBucketAlone(bs, key, capacity, refillRate, t) ==
    IF key \in DOMAIN bs
    THEN bs
    ELSE [k \in {key} |-> NewTokenBucket(capacity, refillRate, t)]

\* Variant: the bucket of the key is rebuilt with the parameters passed
getBucketRebuild(bs, key, capacity, refillRate, t) ==
    [k \in DOMAIN bs \cup {key} |->
        IF k = key THEN NewTokenBucket(capacity, refillRate, t) ELSE bs[k]]

\* getBucket(key, capacity, refillRate): the map afterwards
getBucket(bs, key, capacity, refillRate, t) ==
    IF key \in DOMAIN bs
    THEN bs
    ELSE [k \in DOMAIN bs \cup {key} |->
            IF k = key THEN NewTokenBucket(capacity, refillRate, t) ELSE bs[k]]

\* Variant: every full bucket is removed, whenever it was last used
cleanupEvictFull(bs, t) ==
    LET refilled == [k \in DOMAIN bs |-> getTokens(bs[k], t)]
        removed == { k \in DOMAIN bs : refilled[k].result = bs[k].capacity }
    IN  [k \in DOMAIN bs \ removed |-> refilled[k].bucket]

\* private cleanup(): getTokens() refills every bucket (setting lastRefill to
\* the clock) before lastRefill is compared with the cutoff
cleanup(bs, t) ==
    LET cutoff == t - CleanupIdleMs
        refilled == [k \in DOMAIN bs |-> getTokens(bs[k], t)]
        removed == { k \in DOMAIN bs :
                        /\ refilled[k].result = bs[k].capacity
                        /\ refilled[k].bucket.lastRefill < cutoff }
    IN  [k \in DOMAIN bs \ removed |-> refilled[k].bucket]

----
\* The middleware createRateLimit(config) returns

\* Where a call made by the handler throws, besides the key generator:
\* nowhere, in res.set, in res.status(429).json, or in the downstream handler
\* that next() runs
Faults == {"none", "set", "json", "next"}

NoDeny == [valid |-> FALSE, at |-> 0, retryAfter |-> 0]

\* The response and effects of a request before anything has happened;
\* `fault` is the call that threw after the key was generated, if one did
NoOutcome ==
    [op |-> "init", policy |-> "", fault |-> "none", keyOk |-> FALSE, key |-> "",
     created |-> FALSE, decision |-> "none", at |-> 0, at2 |-> 0,
     capacity |-> 0, tokensAfter |-> 0, scale |-> 1,
     hasHeaders |-> FALSE, limit |-> 0, remaining |-> 0, resetAt |-> 0,
     hasRetryAfter |-> FALSE, retryAfter |-> 0,
     status |-> 0, bodySent |-> FALSE, message |-> "", window_ms |-> 0,
     code |-> "", body_limit |-> 0, retry_after_seconds |-> 0,
     nextCalls |-> 0, logs |-> {}, propagated |-> FALSE, path |-> "",
     prevDeny |-> NoDeny, burstN |-> 0, fresh |-> FALSE]

\* Variant: the body carries the configured message only
ErrorBodyNoDefault(config, retryAfter) ==
    [code |-> "RATE_LIMIT_EXCEEDED", message |-> config.message,
     limit |-> config.max, window_ms |-> config.windowMs,
     retry_after_seconds |-> retryAfter]

\* The error object of the 429 response: code, message and details
ErrorBody(config, retryAfter) ==
    [code |-> "RATE_LIMIT_EXCEEDED",
     message |-> Or(config.message, DefaultMessage),
     limit |-> config.max, window_ms |-> config.windowMs,
     retry_after_seconds |-> retryAfter]

\* Variant: the catch block rethrows instead of calling next
CatchBlockRethrow(o, fault, calls) ==
    [o EXCEPT !.logs = o.logs \cup {"error"}, !.nextCalls = calls, !.propagated = TRUE,
              !.fault = IF (calls = 0 /\ o.keyOk) \/ fault = "next" THEN fault ELSE "none"]

\* catch (error) { logger.error(...); next(); } after `calls` earlier calls of
\* next; a downstream handler that throws, throws out of this next() too
CatchBlock(o, fault, calls) ==
    [o EXCEPT !.logs = o.logs \cup {"error"},
              !.nextCalls = calls + 1,
              !.propagated = (fault = "next"),
              !.fault = IF (calls = 0 /\ o.keyOk) \/ fault = "next" THEN fault ELSE "none"]

\* The handler (req, res, next) => void, run at clock value t; the clock reads
\* t + skew after the consume.  Returns the store afterwards and the outcome.
rateLimit(bs, t, config, req, fault, skew) ==
    LET refillRate == RefillRateOf(config)
        kr == GenerateKey(config, req)
        base == [NoOutcome EXCEPT !.op = "request", !.policy = config.name,
                                  !.at = t, !.at2 = t + skew]
    IN  IF ~kr.ok
        THEN [buckets |-> bs, outcome |-> CatchBlock(base, fault, 0)]
        ELSE
        LET key == kr.value
            bs1 == getBucket(bs, key, config.max, refillRate, t)
            c == consume(bs1[key], t, 1)
            t2 == t + skew
            keyed == [base EXCEPT !.keyOk = TRUE, !.key = key,
                                  !.created = (key \notin DOMAIN bs),
                                  !.capacity = bs1[key].capacity,
                                  !.scale = Scale(bs1[key])]
        IN  IF c.result
            THEN \* Request allowed
                LET g == getTokens(c.bucket, t2)
                    bs2 == [bs1 EXCEPT ![key] = g.bucket]
                    allowed == [keyed EXCEPT !.decision = "admit",
                                             !.tokensAfter = g.bucket.tokens]
                    headed == [allowed EXCEPT !.hasHeaders = TRUE,
                                              !.limit = config.max,
                                              !.remaining = g.result,
                                              !.resetAt = t2 + config.windowMs,
                                              !.logs = {"debug"}]
                IN  [buckets |-> bs2,
                     outcome |->
                        IF fault = "set" THEN CatchBlock(allowed, fault, 0)
                        ELSE IF fault = "next" THEN CatchBlock(headed, fault, 1)
                        ELSE [headed EXCEPT !.nextCalls = 1]]
            ELSE \* Rate limit exceeded
                LET g == getTimeUntilRefillCeil(c.bucket, t2)
                    bs2 == [bs1 EXCEPT ![key] = g.bucket]
                    denied == [keyed EXCEPT !.decision = "deny",
                                            !.tokensAfter = g.bucket.tokens]
                    headed == [denied EXCEPT !.hasHeaders = TRUE,
                                             !.limit = config.max,
                                             !.remaining = 0,
                                             !.resetAt = t2 + config.windowMs,
                                             !.hasRetryAfter = TRUE,
                                             !.retryAfter = g.result,
                                             !.logs = {"warn"}]
                IN  [buckets |-> bs2,
                     outcome |->
                        IF fault = "set" THEN CatchBlock(denied, fault, 0)
                        ELSE IF fault = "json"
                        THEN CatchBlock([headed EXCEPT !.status = TooManyRequests],
                                        fault, 0)
                        ELSE LET body == ErrorBody(config, g.result)
                             IN  [headed EXCEPT
                                    !.status = TooManyRequests,
                                    !.bodySent = TRUE,
                                    !.code = body.code,
                                    !.message = body.message,
                                    !.body_limit = body.limit,
                                    !.window_ms = body.window_ms,
                                    !.retry_after_seconds = body.retry_after_seconds]]

----
\* TokenBucket and RateLimitStore computed in doubles, as the source does

\* const refillRate = config.max / (config.windowMs / 1000)
refillRate64(config) ==
    Div64(Number64(config.max), Div64(Number64(config.windowMs), Number64(MsPerSecond)))

\* new TokenBucket(capacity, refillRate)
NewTokenBucket64(capacity, refillRate, t) ==
    [tokens |-> Number64(capacity), lastRefill |-> t,
     capacity |-> capacity, refillRate |-> refillRate]

\* private refill(), for a clock that has not stepped back:
\* elapsed = (now - lastRefill) / 1000; tokensToAdd = elapsed * refillRate;
\* tokens = Math.min(capacity, tokens + tokensToAdd); lastRefill = now
refill64(b, t) ==
    [b EXCEPT !.tokens = Min64(Number64(b.capacity),
                               Add64(@, Mul64(Div64(Number64(t - b.lastRefill),
                                                    Number64(MsPerSecond)),
                                              b.refillRate))),
              !.lastRefill = t]

Consumed64(r) ==
    IF Geq64(r.tokens, One64)
    THEN [bucket |-> [r EXCEPT !.tokens = Sub64(@, One64)], result |-> TRUE]
    ELSE [bucket |-> r, result |-> FALSE]

\* consume(1)
consume64(b, t) == Consumed64(refill64(b, t))

Counted64(r) == [bucket |-> r, result |-> Floor64(r.tokens)]

\* getTokens()
getTokens64(b, t) == Counted64(refill64(b, t))

Waited64(r) ==
    [bucket |-> r,
     result |-> IF Geq64(r.tokens, One64) THEN 0
                ELSE Ceil64(Div64(Sub64(One64, r.tokens), r.refillRate))]

\* Math.ceil(getTimeUntilRefill())
getTimeUntilRefillCeil64(b, t) == Waited64(refill64(b, t))

\* getBucket(key, capacity, refillRate)
getBucket64(bs, key, capacity, refillRate, t) ==
    IF key \in DOMAIN bs
    THEN bs
    ELSE [k \in DOMAIN bs \cup {key} |->
            IF k = key THEN NewTokenBucket64(capacity, refillRate, t) ELSE bs[k]]

Evicted64(refilled, cutoff) ==
    { k \in DOMAIN refilled :
        /\ refilled[k].result = refilled[k].bucket.capacity
        /\ refilled[k].bucket.lastRefill < cutoff }

Kept64(refilled, removed) == [k \in DOMAIN refilled \ removed |-> refilled[k].bucket]

Cleaned64(refilled, t) == Kept64(refilled, Evicted64(refilled, t - CleanupIdleMs))

\* private cleanup()
cleanup64(bs, t) == Cleaned64([k \in DOMAIN bs |-> getTokens64(bs[k], t)], t)

\* The handler createRateLimit(config) returns, where nothing throws after
\* the key is derived and the clock is read once
Allowed64(bs, config, keyed, g) ==
    [buckets |-> [bs EXCEPT ![keyed.key] = g.bucket],
     outcome |-> [keyed EXCEPT !.decision = "admit",
                               !.hasHeaders = TRUE,
                               !.limit = config.max,
                               !.remaining = g.result,
                               !.resetAt = keyed.at + config.windowMs,
                               !.logs = {"debug"},
                               !.nextCalls = 1]]

Exceeded64(bs, config, keyed, g, body) ==
    [buckets |-> [bs EXCEPT ![keyed.key] = g.bucket],
     outcome |-> [keyed EXCEPT !.decision = "deny",
                               !.hasHeaders = TRUE,
                               !.limit = config.max,
                               !.remaining = 0,
                               !.resetAt = keyed.at + config.windowMs,
                               !.hasRetryAfter = TRUE,
                               !.retryAfter = g.result,
                               !.logs = {"warn"},
                               !.status = TooManyRequests,
                               !.bodySent = TRUE,
                               !.code = body.code,
                               !.message = body.message,
                               !.body_limit = body.limit,
                               !.window_ms = body.window_ms,
                               !.retry_after_seconds = body.retry_after_seconds]]

Denied64(bs, config, keyed, g) == Exceeded64(bs, config, keyed, g, ErrorBody(config, g.result))

Decided64(bs, t, config, keyed, c) ==
    IF c.result
    THEN Allowed64(bs, config, keyed, getTokens64(c.bucket, t))
    ELSE Denied64(bs, config, keyed, getTimeUntilRefillCeil64(c.bucket, t))

Keyed64(bs, bs1, t, config, base, key) ==
    Decided64(bs1, t, config,
              [base EXCEPT !.keyOk = TRUE, !.key = key,
                           !.created = (key \notin DOMAIN bs),
                           !.capacity = bs1[key].capacity],
              consume64(bs1[key], t))

Derived64(bs, t, config, base, kr) ==
    IF ~kr.ok
    THEN [buckets |-> bs, outcome |-> CatchBlock(base, "none", 0)]
    ELSE Keyed64(bs, getBucket64(bs, kr.value, config.max, refillRate64(config), t),
                 t, config, base, kr.value)

rateLimit64(bs, t, config, req) ==
    Derived64(bs, t, config,
              [NoOutcome EXCEPT !.op = "request", !.policy = config.name,
                                !.at = t, !.at2 = t],
              GenerateKey(config, req))

----
\* History bookkeeping

\* Append an admission time, keeping the latest MaxHist
Remember(h, t) ==
    LET a == Append(h, t)
    IN  IF Len(a) > MaxHist THEN Tail(a) ELSE a

\* No successful consume at the current clock value, on a bucket that is not
\* fresh (constructed at the current clock value)
NoBurst == [n |-> 0, fresh |-> FALSE]

EmptyStore == [k \in {} |-> NoOutcome]

----
Init ==
    /\ now = 0
    /\ buckets = EmptyStore
    /\ running = TRUE
    /\ cleanupDue = CleanupIntervalMs
    /\ ticks = 0
    /\ skews = 0
    /\ hist = [k \in AllKeys |-> <<>>]
    /\ deny = [k \in AllKeys |-> NoDeny]
    /\ burst = [k \in AllKeys |-> NoBurst]
    /\ seen = [k \in AllKeys |-> 0]
    /\ probe = NoProbe
    /\ last = NoOutcome
    /\ shadow = EmptyStore

\* A request passes through the middleware created from `config`.  `track`
\* names the history variables the specification records.
Handle(config, req, fault, skew, track) ==
    /\ running
    /\ skew = 0 \/ skews < MaxSkews
    /\ \E r \in {rateLimit(buckets, now, config, req, fault, skew)} :
       LET o == r.outcome
           b == IF ~o.keyOk THEN NoBurst
                ELSE [n |-> burst[o.key].n + (IF o.decision = "admit" THEN 1 ELSE 0),
                      fresh |-> o.created \/ burst[o.key].fresh]
       IN  /\ buckets' = r.buckets
           /\ now' = now + skew
           /\ skews' = IF skew = 0 THEN skews ELSE skews + 1
           /\ hist' = IF "hist" \in track /\ o.decision = "admit"
                      THEN [hist EXCEPT ![o.key] = Remember(@, o.at)]
                      ELSE hist
           /\ deny' = IF "deny" \notin track THEN deny
                      ELSE IF o.decision = "admit"
                      THEN [deny EXCEPT ![o.key] = NoDeny]
                      ELSE IF o.decision = "deny" /\ o.bodySent
                      THEN [deny EXCEPT ![o.key] =
                              [valid |-> TRUE, at |-> o.at2, retryAfter |-> o.retryAfter]]
                      ELSE deny
           /\ burst' = IF "burst" \notin track THEN burst
                       ELSE IF skew # 0 THEN [k \in AllKeys |-> NoBurst]
                       ELSE IF o.keyOk THEN [burst EXCEPT ![o.key] = b]
                       ELSE burst
           /\ seen' = IF "seen" \in track /\ o.keyOk
                      THEN [seen EXCEPT ![o.key] = o.at2]
                      ELSE seen
           /\ last' = IF "last" \notin track THEN [NoOutcome EXCEPT !.op = "request"]
                      ELSE IF o.keyOk
                      THEN [o EXCEPT !.prevDeny = deny[o.key],
                                     !.burstN = b.n, !.fresh = b.fresh]
                      ELSE o
    /\ UNCHANGED <<running, cleanupDue, ticks, probe, shadow>>

\* The wall clock advances between operations, at most `bound` times
Tick(d, bound) ==
    /\ running
    /\ ticks < bound
    /\ now' = now + d
    /\ ticks' = ticks + 1
    /\ burst' = [k \in AllKeys |-> NoBurst]
    /\ last' = [NoOutcome EXCEPT !.op = "tick"]
    /\ UNCHANGED <<buckets, running, cleanupDue, skews, hist, deny, seen, probe, shadow>>

\* The wall clock is set back by d milliseconds (Date.now() is not monotonic)
StepBack(d, bound) ==
    /\ running
    /\ ticks < bound
    /\ now >= d
    /\ now' = now - d
    /\ ticks' = ticks + 1
    /\ burst' = [k \in AllKeys |-> NoBurst]
    /\ last' = [NoOutcome EXCEPT !.op = "tick"]
    /\ UNCHANGED <<buckets, running, cleanupDue, skews, hist, deny, seen, probe, shadow>>

\* The setInterval callback of the store runs cleanup()
Cleanup ==
    /\ running
    /\ now >= cleanupDue
    /\ buckets' = cleanup(buckets, now)
    /\ cleanupDue' = cleanupDue + CleanupIntervalMs
    /\ burst' = [k \in AllKeys |-> IF k \in DOMAIN buckets' THEN burst[k] ELSE NoBurst]
    /\ last' = [NoOutcome EXCEPT !.op = "cleanup"]
    /\ UNCHANGED <<now, running, ticks, skews, hist, deny, seen, probe, shadow>>

\* Variant: destroy() clears the map and leaves the interval armed
ShutdownKeepInterval ==
    /\ running
    /\ buckets' = EmptyStore
    /\ burst' = [k \in AllKeys |-> NoBurst]
    /\ last' = [NoOutcome EXCEPT !.op = "destroy"]
    /\ UNCHANGED <<now, running, cleanupDue, ticks, skews, hist, deny, seen, probe, shadow>>

\* SIGTERM / SIGINT: cleanupRateLimiting() destroys the store, then the
\* server's own listener exits the process
Shutdown ==
    /\ running
    /\ buckets' = EmptyStore
    /\ running' = FALSE
    /\ burst' = [k \in AllKeys |-> NoBurst]
    /\ last' = [NoOutcome EXCEPT !.op = "destroy"]
    /\ UNCHANGED <<now, cleanupDue, ticks, skews, hist, deny, seen, probe, shadow>>

\* A request with the descriptor d arrives
Arrive(d) ==
    /\ running
    /\ probe' = [NoProbe EXCEPT !.req = d]
    /\ UNCHANGED <<now, buckets, running, cleanupDue, ticks, skews, hist, deny, burst,
                   seen, last, shadow>>

\* The key generator g is called with the request that arrived
DeriveKey(g) ==
    /\ running
    /\ ~probe.applied
    /\ probe' = [probe EXCEPT !.keyGenerator = g, !.applied = TRUE,
                              !.result = GenerateKey([keyGenerator |-> g], probe.req)]
    /\ UNCHANGED <<now, buckets, running, cleanupDue, ticks, skews, hist, deny, burst,
                   seen, last, shadow>>

\* A request passes through the handler of `config`, computed in doubles.
\* The same request is applied to `shadow`, the store of the run of the same
\* requests in which the cleanup interval never fires
Handle64(config, req) ==
    /\ running
    /\ \E r \in {rateLimit64(buckets, now, config, req)} :
       \E s \in {rateLimit64(shadow, now, config, req)} :
       LET o == r.outcome
       IN  /\ buckets' = r.buckets
           /\ shadow' = s.buckets
           /\ deny' = IF ~o.keyOk THEN deny
                      ELSE IF o.decision = "admit"
                      THEN [deny EXCEPT ![o.key] = NoDeny]
                      ELSE [deny EXCEPT ![o.key] =
                              [valid |-> TRUE, at |-> o.at2, retryAfter |-> o.retryAfter]]
           /\ last' = IF o.keyOk THEN [o EXCEPT !.prevDeny = deny[o.key]] ELSE o
    /\ UNCHANGED <<now, running, cleanupDue, ticks, skews, hist, burst, seen, probe>>

\* The cleanup interval fires, on the store computed in doubles
Cleanup64 ==
    /\ running
    /\ now >= cleanupDue
    /\ buckets' = cleanup64(buckets, now)
    /\ cleanupDue' = cleanupDue + CleanupIntervalMs
    /\ last' = [NoOutcome EXCEPT !.op = "cleanup"]
    /\ UNCHANGED <<now, running, ticks, skews, hist, deny, burst, seen, probe, shadow>>

\* The routes of server.ts: every path passes generalRateLimit; /health then
\* passes healthRateLimit before its router
Paths == {"/health", "/auth"}

\* A request for `path` runs through the middleware chain of server.ts: the
\* second limiter runs when the first one called next().  The burst counts
\* the /health requests that reached their router.
Route(path) ==
    /\ running
    /\ \E r1 \in {rateLimit(buckets, now, generalRateLimit, ReqWithBody, "none", 0)} :
       \E r2 \in {IF path = "/health" /\ r1.outcome.nextCalls > 0
                  THEN rateLimit(r1.buckets, now, healthRateLimit, ReqWithBody, "none", 0)
                  ELSE r1} :
       LET o == r2.outcome
           key == o.key
           b == IF path = "/health"
                THEN [n |-> burst[key].n + (IF o.nextCalls > 0 THEN 1 ELSE 0),
                      fresh |-> r1.outcome.created \/ burst[key].fresh]
                ELSE NoBurst
       IN  /\ buckets' = r2.buckets
           /\ burst' = [burst EXCEPT ![key] = b]
           /\ last' = [o EXCEPT !.path = path, !.burstN = b.n, !.fresh = b.fresh]
    /\ UNCHANGED <<now, running, cleanupDue, ticks, skews, hist, deny, seen, probe, shadow>>

\* Two policies that share the key of one caller, and a request whose key
\* generation throws; every fault and clock reading, over a short time
Requests == {<<General, ReqWithBody>>, <<Health, ReqWithBody>>, <<Query, ReqNoBody>>}

Next ==
    \/ \E rq \in Requests, fault \in Faults, skew \in ClockSkews :
            Handle(rq[1], rq[2], fault, skew, {"last", "burst"})
    \/ \E d \in TickSteps : Tick(d, MaxTicks)
    \/ Cleanup
    \/ Shutdown

Spec == Init /\ [][Next]_vars

\* Two keys
IsoRequests == {<<General, ReqWithBody>>, <<Query, ReqWithBody>>}

NextIso ==
    \/ \E rq \in IsoRequests, skew \in ClockSkews :
            Handle(rq[1], rq[2], "none", skew, {"last"})
    \/ \E d \in TickSteps : Tick(d, MaxTicks)
    \/ Cleanup
    \/ Shutdown

SpecIso == Init /\ [][NextIso]_vars

\* Less than one cleanup interval of one key, with no call of the handler
\* throwing (such a throw never changes the store)
TimedRequests == {<<Slow, ReqWithBody>>, <<General, ReqWithBody>>}

NextTimed ==
    \/ \E rq \in TimedRequests, skew \in ClockSkews :
            Handle(rq[1], rq[2], "none", skew, {"last", "deny"})
    \/ \E d \in TimedSteps : Tick(d, MaxTimedTicks)

SpecTimed == Init /\ [][NextTimed]_vars

\* The same, recording the times of the successful consumes
HistRequests == {<<General, ReqWithBody>>, <<Health, ReqWithBody>>}

NextHist ==
    \/ \E rq \in HistRequests, skew \in ClockSkews :
            Handle(rq[1], rq[2], "none", skew, {"hist"})
    \/ \E d \in HistSteps : Tick(d, MaxHistTicks)

SpecHist == Init /\ [][NextHist]_vars

\* Two keys over several cleanup intervals, recording when each key was last
\* requested
SweepRequests == {<<General, ReqWithBody>>, <<Query, ReqWithBody>>}

NextSweep ==
    \/ \E rq \in SweepRequests, skew \in ClockSkews :
            Handle(rq[1], rq[2], "none", skew, {"seen"})
    \/ \E d \in SweepSteps : Tick(d, MaxSweepTicks)
    \/ Cleanup
    \/ Shutdown

SpecSweep == Init /\ [][NextSweep]_vars

\* A registry with a configuration of capacity 0 next to a valid one; a
\* handler exists when createRateLimit returned it
ConfigPolicies == {General, Zero}

NextConfig ==
    \/ \E p \in ConfigPolicies, skew \in ClockSkews :
            /\ createRateLimit(p).ok
            /\ Handle(createRateLimit(p).value, ReqWithBody, "none", skew, {"last"})
    \/ \E d \in HistSteps : Tick(d, MaxHistTicks)

SpecConfig == Init /\ [][NextConfig]_vars

\* One key under a wall clock that is also set back
NextRegress ==
    \/ \E skew \in ClockSkews : Handle(General, ReqWithBody, "none", skew, {"last"})
    \/ \E d \in RegressSteps : Tick(d, MaxRegressTicks)
    \/ \E d \in BackSteps : StepBack(d, MaxRegressTicks)

SpecRegress == Init /\ [][NextRegress]_vars

\* The middleware chain of server.ts for one origin
NextChain ==
    \/ \E path \in Paths : Route(path)
    \/ \E d \in ChainSteps : Tick(d, MaxChainTicks)

SpecChain == Init /\ [][NextChain]_vars

\* Uploads of one enterprise, computed in doubles, with the cleanup interval
NextDouble ==
    \/ Handle64(uploadRateLimit, ReqWithBody)
    \/ \E d \in DoubleSteps : Tick(d, MaxDoubleTicks)
    \/ Cleanup64

SpecDouble == Init /\ [][NextDouble]_vars

\* The key generators on every request descriptor
NextKeys ==
    \/ \E d \in KeyDescs : Arrive(d)
    \/ \E g \in KeyGenerators : DeriveKey(g)

SpecKeys == Init /\ [][NextKeys]_vars

----
\* Helpers of the properties

IsRequest(o) == o.op = "request" /\ o.keyOk

\* The request ran under the policy whose parameters its bucket has
OwnBucket(o) ==
    \E p \in Policies : p.name = o.policy /\ p.max = o.capacity /\ p.windowMs = o.scale

\* The bucket is at its capacity
Full(b) == b.tokens = b.capacity * Scale(b)

\* The step is a run of the periodic cleanup
Swept == cleanupDue' # cleanupDue

\* getTokens() would report the bucket of key k at its capacity now
Recovered(k) == getTokens(buckets[k], now).result = buckets[k].capacity

\* The key k has had no request for longer than the idle window
Idle(k) == seen[k] < now - CleanupIdleMs

\* The network address of a request, "unknown" when there is none
Origin(req) == Or(req.ip, Or(req.remoteAddress, "unknown"))

\* The first enterprise id among path parameter, parsed body and
\* authenticated caller; "" when there is none
FirstTenant(req) ==
    Or(req.params_enterprise_id,
       Or(IF req.hasBody THEN req.body_enterprise_id ELSE "",
          IF req.user.present /\ Len(req.user.enterprises) > 0
          THEN req.user.enterprises[1] ELSE ""))

\* The configuration the request ran under
PolicyOf(o) == CHOOSE p \in Policies : p.name = o.policy

\* The number of requests in immediate succession at time t that consume a
\* token of the bucket b
RECURSIVE ImmediateAdmits(_, _)
ImmediateAdmits(b, t) ==
    LET c == consume(b, t, 1)
    IN  IF c.result THEN 1 + ImmediateAdmits(c.bucket, t) ELSE 0

\* The costs consume is called with: 1 by the middleware, more by other callers
Costs == {1, 2}

\* The delays after a bucket's latest refill at which it is refilled again
RefillOffsets == {121, 11879}

\* The wait the refill test allows for one token of the General policy
RefillWaitMs == 600

----
\* C1: for every key, the token level of its bucket is between 0 and the
\* bucket's capacity in every reachable state.
CapacityBound ==
    \A k \in DOMAIN buckets :
        /\ 0 <= buckets[k].tokens
        /\ buckets[k].tokens <= buckets[k].capacity * Scale(buckets[k])

\* A drained bucket was refilled by elapsed time up to its capacity and then
\* consumed from again
CapacityBoundWitness ==
    /\ IsRequest(last) /\ last.decision = "admit" /\ ~last.created
    /\ ticks > 0
    /\ last.at2 = last.at
    /\ last.tokensAfter = (last.capacity - 1) * last.scale

\* C2: among the requests that hit one bucket at one clock value at most
\* `capacity` consume a token, so the request after `capacity` admissions on
\* a fresh key is denied; a denial whose response is written answers 429.
BurstThenThrottle ==
    IsRequest(last) =>
        /\ last.burstN <= last.capacity
        /\ (last.decision = "deny" /\ last.fault \notin {"set", "json"}) =>
                (last.status = TooManyRequests /\ last.bodySent /\ last.nextCalls = 0)

BurstThenThrottleWitness ==
    /\ IsRequest(last) /\ last.fresh /\ last.at2 = last.at
    /\ last.decision = "deny"
    /\ last.burstN = last.capacity
    /\ last.status = TooManyRequests

DenyShortCircuits ==
    (IsRequest(last) /\ last.decision = "deny") =>
        /\ last.nextCalls = 0
        /\ last.status = TooManyRequests
        /\ last.bodySent

\* C5: when key derivation throws and nothing else does, the downstream
\* handler is invoked once, the error is logged at error level, no 429 is
\* sent, nothing propagates and the store is untouched.
FailOpen ==
    [][(last'.op = "request" /\ ~last'.keyOk /\ last'.fault = "none") =>
            /\ last'.nextCalls = 1
            /\ "error" \in last'.logs
            /\ ~last'.propagated
            /\ last'.status = 0 /\ ~last'.bodySent
            /\ buckets' = buckets]_vars

FailOpenWitness ==
    /\ last.op = "request" /\ ~last.keyOk /\ last.fault = "none"
    /\ last.nextCalls = 1
    /\ DOMAIN buckets # {}

\* C6: a request on one key leaves the bucket of every other key unchanged,
\* and its decision is the one its own bucket and the clock give.
KeyIsolation ==
    [][IsRequest(last') =>
            /\ \A k \in DOMAIN buckets \ {last'.key} :
                    k \in DOMAIN buckets' /\ buckets'[k] = buckets[k]
            /\ last'.key \in DOMAIN buckets =>
                    (last'.decision = "admit") = consume(buckets[last'.key], now, 1).result
            /\ last'.key \notin DOMAIN buckets => last'.decision = "admit"]_vars

\* A request on one key while the other key's bucket is below its capacity
KeyIsolationWitness ==
    /\ IsRequest(last)
    /\ \E k \in DOMAIN buckets : k # last.key /\ ~Full(buckets[k])

\* C7: after a 429 with Retry-After r, if no request on the key consumed a
\* token since, a request at least r seconds later is admitted; under the
\* 2-per-second policy a request at least 600 ms after a denial is admitted.
RetryHintSufficient ==
    (IsRequest(last) /\ last.prevDeny.valid) =>
        /\ last.at >= last.prevDeny.at + last.prevDeny.retryAfter * MsPerSecond =>
                last.decision = "admit"
        /\ ( /\ last.capacity = General.max /\ last.scale = General.windowMs
             /\ last.at >= last.prevDeny.at + RefillWaitMs ) =>
                last.decision = "admit"

\* A denial with Retry-After 3 followed, 3 seconds later, by an admission
RetryHintSufficientWitness ==
    /\ IsRequest(last) /\ last.prevDeny.valid
    /\ last.prevDeny.retryAfter = 3
    /\ last.at = last.prevDeny.at + 3 * MsPerSecond
    /\ last.decision = "admit"

\* C8 (as claimed): every denial carries a Retry-After greater than 0 that is
\* at most the Retry-After of the previous denial of the run on that key.
RetryAfterMonotone ==
    (IsRequest(last) /\ last.decision = "deny" /\ last.hasRetryAfter) =>
        /\ last.retryAfter > 0
        /\ last.prevDeny.valid => last.retryAfter <= last.prevDeny.retryAfter

\* C9: the successful consumes of a key in any interval of T seconds number
\* at most capacity + T * refillRate.
RateBound ==
    \A k \in DOMAIN buckets :
        \A i \in 1..Len(hist[k]) : \A j \in i..Len(hist[k]) :
            (j - i + 1) * Scale(buckets[k]) <=
                buckets[k].capacity * Scale(buckets[k])
                    + (hist[k][j] - hist[k][i]) * buckets[k].refillRate.num

\* Three or more consumes over a positive interval that meet the bound
RateBoundWitness ==
    \E k \in DOMAIN buckets :
        \E i \in 1..Len(hist[k]) : \E j \in i..Len(hist[k]) :
            /\ j - i + 1 >= 3
            /\ hist[k][j] > hist[k][i]
            /\ (j - i + 1) * Scale(buckets[k]) =
                    buckets[k].capacity * Scale(buckets[k])
                        + (hist[k][j] - hist[k][i]) * buckets[k].refillRate.num

\* C10 (as claimed): the successful consumes of a key within any interval
\* shorter than windowMs number at most max.
WindowLimit ==
    \A k \in DOMAIN buckets :
        \A i \in 1..Len(hist[k]) : \A j \in i..Len(hist[k]) :
            hist[k][j] - hist[k][i] < Scale(buckets[k]) =>
                j - i + 1 <= buckets[k].capacity

\* C11 (as claimed): a run of the periodic cleanup removes every bucket that
\* is at its capacity and whose key has had no request for longer than the
\* idle window of 10 minutes.
SweepEvicts ==
    [][Swept => \A k \in DOMAIN buckets :
                    (Recovered(k) /\ Idle(k)) => k \notin DOMAIN buckets']_vars

\* C12: a run of the periodic cleanup keeps every bucket that is below its
\* capacity at that time and every bucket whose key had a request within the
\* idle window.
SweepRetains ==
    [][Swept => \A k \in DOMAIN buckets :
                    (~Recovered(k) \/ ~Idle(k)) => k \in DOMAIN buckets']_vars

\* A cleanup ran over a bucket below its capacity and over a full bucket
\* requested five minutes before
SweepRetainsWitness ==
    /\ last.op = "cleanup"
    /\ \E k \in DOMAIN buckets : ~Full(buckets[k])
    /\ \E k \in DOMAIN buckets : Full(buckets[k]) /\ seen[k] = now - CleanupIntervalMs

\* C13: the store maps a key to one bucket; getBucket returns the store
\* unchanged when the key is present, whatever capacity and refillRate are
\* passed, and a bucket keeps its capacity and refillRate for as long as it
\* is in the store.
FirstSeenParameters ==
    [][/\ \A k \in DOMAIN buckets \cap DOMAIN buckets' :
            /\ buckets'[k].capacity = buckets[k].capacity
            /\ buckets'[k].refillRate = buckets[k].refillRate
       /\ \A k \in DOMAIN buckets : \A p \in Policies :
            getBucket(buckets, k, p.max, RefillRateOf(p), now) = buckets]_vars

\* A request under the 5-per-minute policy was accounted for by the bucket
\* the 2-per-second policy created
FirstSeenParametersWitness ==
    /\ IsRequest(last) /\ ~last.created
    /\ last.policy = Health.name
    /\ last.capacity = General.max /\ last.scale = General.windowMs

\* C14 (as claimed): each of the three key generators returns a key for every
\* request descriptor and never throws; the default one returns "unknown"
\* when the request has no address.
KeyStrategiesTotal ==
    probe.applied =>
        /\ probe.result.ok
        /\ (probe.keyGenerator = "default" /\ probe.req.ip = ""
                /\ probe.req.remoteAddress = "") => probe.result.value = "unknown"

\* C15 (as claimed): enterpriseKeyGenerator returns "enterprise:" followed by
\* the first enterprise id among path parameter, body and the caller's first
\* enterprise, and "ip:" followed by the address only when there is none.
TenantKeyPriority ==
    (probe.applied /\ probe.keyGenerator = "enterprise") =>
        probe.result =
            Ok(IF FirstTenant(probe.req) # ""
               THEN "enterprise:" \o FirstTenant(probe.req)
               ELSE "ip:" \o Origin(probe.req))

\* C16 (as claimed): userKeyGenerator returns "user:" followed by the uid
\* when there is one, and otherwise the key getDefaultKey returns.
CallerKeyFallsBackToOrigin ==
    (probe.applied /\ probe.keyGenerator = "user") =>
        probe.result =
            IF probe.req.user.present /\ probe.req.user.uid # ""
            THEN Ok("user:" \o probe.req.user.uid)
            ELSE getDefaultKey(probe.req)

\* C16: userKeyGenerator returns "user:" followed by the uid when there is
\* one, whatever the address, and otherwise "ip:" followed by the key
\* getDefaultKey returns.
CallerKey ==
    (probe.applied /\ probe.keyGenerator = "user") =>
        probe.result =
            IF probe.req.user.present /\ probe.req.user.uid # ""
            THEN Ok("user:" \o probe.req.user.uid)
            ELSE Ok("ip:" \o getDefaultKey(probe.req).value)

\* A request of an unauthenticated caller with an address
CallerKeyWitness ==
    /\ probe.applied /\ probe.keyGenerator = "user"
    /\ ~probe.req.user.present
    /\ probe.result = Ok("ip:10.0.0.1")

\* C17 (as claimed): every request that passes through the middleware gets
\* the three X-RateLimit headers, X-RateLimit-Limit being the capacity of the
\* bucket that accounted for the request and X-RateLimit-Remaining an integer
\* not below 0.
HeadersOnEveryCall ==
    last.op = "request" =>
        /\ last.hasHeaders
        /\ last.limit = last.capacity
        /\ last.remaining >= 0

\* C18: a denial whose response is written has status 429, error code
\* RATE_LIMIT_EXCEEDED, the configured message or else the default one,
\* details.limit = max, details.window_ms = windowMs and
\* details.retry_after_seconds equal to the Retry-After header.
DenyShape ==
    (IsRequest(last) /\ last.decision = "deny" /\ last.fault \notin {"set", "json"}) =>
        /\ last.bodySent
        /\ last.status = TooManyRequests
        /\ last.code = "RATE_LIMIT_EXCEEDED"
        /\ last.message = Or(PolicyOf(last).message, DefaultMessage)
        /\ last.body_limit = PolicyOf(last).max
        /\ last.window_ms = PolicyOf(last).windowMs
        /\ last.hasRetryAfter
        /\ last.retry_after_seconds = last.retryAfter

\* A denial under a policy without a message, with Retry-After 3
DenyShapeWitness ==
    /\ IsRequest(last) /\ last.decision = "deny" /\ last.bodySent
    /\ PolicyOf(last).message = ""
    /\ last.message = DefaultMessage
    /\ last.retry_after_seconds = 3

\* C19 (as claimed): no request is processed under a configuration whose max
\* or windowMs is not positive, because createRateLimit rejects it.
ConfigRejected ==
    last.op = "request" =>
        /\ PolicyOf(last).max > 0
        /\ PolicyOf(last).windowMs > 0

\* C20: when cleanupRateLimiting has run on SIGTERM or SIGINT the store holds
\* no bucket, and from then on no cleanup runs and the store stays empty.
ShutdownFinal ==
    [][/\ last'.op = "destroy" => buckets' = EmptyStore
       /\ last.op = "destroy" => (~Swept /\ buckets' = EmptyStore)]_vars

\* The store was destroyed while a run of the cleanup interval was due
ShutdownFinalWitness ==
    /\ last.op = "destroy"
    /\ buckets = EmptyStore
    /\ now >= cleanupDue

\* C21: on an admitted request the remaining count reported is the floor of
\* the token level the bucket is left with, and no more than that many
\* further requests on the key are admitted with no elapsed time.
RemainingIsFloor ==
    (IsRequest(last) /\ last.decision = "admit" /\ last.hasHeaders) =>
        /\ last.remaining * last.scale <= last.tokensAfter
        /\ last.tokensAfter < (last.remaining + 1) * last.scale
        /\ last.tokensAfter = buckets[last.key].tokens
        /\ last.remaining = ImmediateAdmits(buckets[last.key], now)

\* An admitted request that leaves a fraction of a token: remaining 0
RemainingIsFloorWitness ==
    /\ IsRequest(last) /\ last.decision = "admit" /\ last.hasHeaders
    /\ last.remaining = 0
    /\ last.tokensAfter > 0

\* C22 (as claimed): from a fresh state the /health requests of one origin
\* in immediate succession are admitted until healthRateLimit.max = 300 of
\* them have been, and an admitted /health request takes exactly one token
\* from the origin's bucket.
HealthPermissive ==
    [][(last'.op = "request" /\ last'.path = "/health") =>
            /\ (last'.fresh /\ last'.nextCalls = 0) =>
                    last'.burstN >= healthRateLimit.max
            /\ last'.nextCalls > 0 =>
                    LET k == last'.key
                        before == IF k \in DOMAIN buckets
                                  THEN refill(buckets[k], now).tokens
                                  ELSE buckets'[k].capacity * Scale(buckets'[k])
                    IN  buckets'[k].tokens = before - Scale(buckets'[k])]_vars

\* C23: consume refills to the current time; when the refilled level is at
\* least the cost it subtracts the cost and returns true, otherwise it
\* returns false and leaves the refilled level; so a request that reads the
\* clock once is admitted exactly when the refilled level is at least 1, and
\* takes 1 when admitted and nothing when denied.
ConsumeSemantics ==
    [][(IsRequest(last') /\ last'.key \in DOMAIN buckets) =>
            LET k == last'.key
                r == refill(buckets[k], now)
                admitted == last'.decision = "admit"
            IN  /\ now' = now =>
                    /\ admitted = (r.tokens >= Scale(r))
                    /\ buckets'[k].tokens = IF admitted THEN r.tokens - Scale(r)
                                                         ELSE r.tokens
                    /\ buckets'[k].lastRefill = now
                /\ \A cost \in Costs :
                        LET c == consume(buckets[k], now, cost)
                        IN  /\ c.result = (r.tokens >= cost * Scale(r))
                            /\ c.bucket.tokens = IF c.result
                                                 THEN r.tokens - cost * Scale(r)
                                                 ELSE r.tokens
                            /\ c.bucket.lastRefill = now]_vars

\* A request denied on a bucket that had refilled to a fraction of a token
ConsumeSemanticsWitness ==
    /\ IsRequest(last) /\ ~last.created /\ last.at2 = last.at
    /\ last.decision = "deny"
    /\ 0 < last.tokensAfter /\ last.tokensAfter < last.scale
    /\ ticks > 0

\* C24: a step that is not an admitted request on a key does not lower the
\* token level of the key's bucket, stored or refilled to the current time,
\* and the count read after an admitted request's consume does not lower it
\* either.
TokensMonotone ==
    [][\A k \in DOMAIN buckets \cap DOMAIN buckets' :
            IF IsRequest(last') /\ last'.key = k /\ last'.decision = "admit"
            THEN buckets'[k].tokens >= consume(buckets[k], now, 1).bucket.tokens
            ELSE /\ buckets'[k].tokens >= buckets[k].tokens
                 /\ refill(buckets'[k], now').tokens >= refill(buckets[k], now).tokens]_vars

\* A cleanup refilled a drained bucket to a fraction of its capacity
TokensMonotoneWitness ==
    /\ last.op = "cleanup"
    /\ \E k \in DOMAIN buckets :
            /\ buckets[k].lastRefill = now
            /\ 0 < buckets[k].tokens
            /\ buckets[k].tokens < Scale(buckets[k])

\* C27 (as claimed): every response with rate-limit headers reports a reset
\* time of windowMs after the decision, and a bucket no request consumes from
\* until then is at its capacity at the reset time.
ResetMeansFull ==
    (IsRequest(last) /\ last.hasHeaders) =>
        /\ last.resetAt = last.at2 + PolicyOf(last).windowMs
        /\ Full(refill(buckets[last.key], last.resetAt))

\* C28 (as claimed): on every response with rate-limit headers
\* 0 <= X-RateLimit-Remaining <= X-RateLimit-Limit.
RemainingWithinLimit ==
    (IsRequest(last) /\ last.hasHeaders) =>
        /\ 0 <= last.remaining
        /\ last.remaining <= last.limit

\* C29 (as claimed): a request either reaches the downstream handler once
\* and gets no 429, or gets the 429 response and does not reach the handler;
\* next is not called twice whatever throws.
ExactlyOneOutcome ==
    last.op = "request" =>
        \/ last.nextCalls = 1 /\ last.status = 0 /\ ~last.bodySent
        \/ last.nextCalls = 0 /\ last.status = TooManyRequests /\ last.bodySent

\* C30 (as claimed): when the clock reads earlier than a bucket's lastRefill,
\* a refill does not lower the token level, the level stays between 0 and
\* the capacity, and a request is not denied on a bucket that holds a token.
ClockRegressionHarmless ==
    [][\A k \in DOMAIN buckets \cap DOMAIN buckets' :
            /\ 0 <= buckets'[k].tokens
            /\ buckets'[k].tokens <= buckets'[k].capacity * Scale(buckets'[k])
            /\ (now < buckets[k].lastRefill /\ IsRequest(last') /\ last'.key = k) =>
                    /\ last'.decision = "deny" =>
                            /\ buckets[k].tokens < Scale(buckets[k])
                            /\ buckets'[k].tokens >= buckets[k].tokens
                    /\ last'.decision = "admit" =>
                            buckets'[k].tokens >= buckets[k].tokens - Scale(buckets[k])]_vars

\* C25 (as claimed): for every sequence of timed requests, the admit/deny
\* decision and the remaining count of the next request are the same in the
\* store the cleanup interval has swept at arbitrary points and in the store
\* of the same requests without any sweep.
SweepTransparent ==
    \A a \in {rateLimit64(buckets, now, uploadRateLimit, ReqWithBody).outcome} :
    \A s \in {rateLimit64(shadow, now, uploadRateLimit, ReqWithBody).outcome} :
        /\ a.decision = s.decision
        /\ a.remaining = s.remaining

\* C26 (as claimed): for a bucket last refilled at t0 and times
\* t0 <= t1 <= t2, refilling at t1 and then at t2 leaves the same token level
\* as refilling once at t2, refilling twice at t1 leaves the level of
\* refilling once at t1, and the extra refill does not change the decision
\* of a request at t2.
RefillComposes ==
    \A k \in DOMAIN buckets : \A d1 \in RefillOffsets, d2 \in RefillOffsets :
        \A once \in {refill64(buckets[k], buckets[k].lastRefill + d1)} :
            /\ refill64(once, once.lastRefill).tokens = once.tokens
            /\ refill64(once, once.lastRefill + d2).tokens
                    = refill64(buckets[k], once.lastRefill + d2).tokens
            /\ consume64(once, once.lastRefill + d2).result
                    = consume64(buckets[k], once.lastRefill + d2).result
====
